---------------------------- MODULE Spec2Model ----------------------------
(***************************************************************************)
(* Model of the tunnel supervision engine of tunnelo:                      *)
(*   - the restart loops open_ssh_tunnel, open_kubectl_tunnel and           *)
(*     open_tunneled_kubectl_tunnel (one asyncio task per endpoint),        *)
(*   - the asyncio.TaskGroup of every connect_*_host and of run_tunnels,    *)
(*   - the external processes the loops start, terminate and wait for.      *)
(* Every await of the code is a position (pc) of the endpoint's task; one   *)
(* action is the code that runs between two awaits.                         *)
(***************************************************************************)
EXTENDS Integers, Sequences, FiniteSets, TLC

(* ------------------------------ bounds -------------------------------- *)
\* how many processes of one endpoint, left running by earlier attempts,
\* the model tracks
MaxOrphans == 1
\* the attempts of one loop are counted up to this number
MaxAttempts == 2

(* --------------------------- configuration ---------------------------- *)
\* The hosts a configuration file may declare: one ssh host with two
\* mounts, one kubectl host with one port, one tunneled_kubectl host with
\* one port, one kubectl host with two resources of one port each.
Hosts == {"hs", "hk", "ht", "hr"}

HostMode(h) ==
  CASE h = "hs" -> "ssh"
    [] h = "hk" -> "kubectl"
    [] h = "ht" -> "tunneled_kubectl"
    [] h = "hr" -> "kubectl"

\* the mounts list of an ssh host
Mounts(h) == IF h = "hs" THEN <<"s1", "s2">> ELSE << >>

\* the resources list of a kubectl or tunneled_kubectl host: the ports
\* list of every resource
Resources(h) ==
  CASE h = "hk" -> << <<"k1">> >>
    [] h = "ht" -> << <<"t1">> >>
    [] h = "hr" -> << <<"r1">>, <<"r2">> >>
    [] OTHER -> << >>

\* the endpoints the configuration declares under host h
HostEndpoints(h) ==
  {Mounts(h)[i] : i \in DOMAIN Mounts(h)}
    \cup UNION {{Resources(h)[i][j] : j \in DOMAIN Resources(h)[i]} :
                  i \in DOMAIN Resources(h)}

Endpoints == UNION {HostEndpoints(h) : h \in Hosts}

HostOf(e) == CHOOSE h \in Hosts : e \in HostEndpoints(h)

Mode(e) == HostMode(HostOf(e))

Single == {e \in Endpoints : Mode(e) \in {"ssh", "kubectl"}}
Composite == {e \in Endpoints : Mode(e) = "tunneled_kubectl"}

\* the task groups: one per connect_*_host, and the one of run_tunnels
Groups == Hosts \cup {"main"}
Tasks == Endpoints \cup Groups

\* the configurations (the hosts of the loaded files) the model is run on
Configs == {{"hs"}, {"hk", "ht"}, {"hr"}}

(* --------------------------- command lines ---------------------------- *)
\* the mount "src:dst" of an endpoint
SrcPort(e) ==
  CASE e = "s1" -> 8080 [] e = "s2" -> 5432 [] e = "k1" -> 9090
    [] e = "r1" -> 8443 [] e = "r2" -> 6379 [] e = "t1" -> 3000

DstPort(e) ==
  CASE e = "s1" -> 80 [] e = "s2" -> 5432 [] e = "k1" -> 9090
    [] e = "r1" -> 443 [] e = "r2" -> 6379 [] e = "t1" -> 3000

\* hostname of the ssh host
Hostname(h) == "bastion"

\* the values of ssh_args the model is run on (None and [] are << >>)
SshArgs == {<< >>, <<"-v">>, <<"-o", "ServerAliveInterval=30">>}

\* os.path.expanduser("~/.ssh/config")
SshConfigPath == "/home/user/.ssh/config"

\* list.insert(i, x), for 0 <= i <= len(list)
Insert(list, i, x) ==
  SubSeq(list, 1, i) \o <<x>> \o SubSeq(list, i + 1, Len(list))

\* mutant of SshCommand: the flag and the path are both inserted at index 1
SshCommandPathFirst(host, src_port, dst_port, extra_args, has_config) ==
  LET command ==
        <<"ssh", "-L", ToString(src_port) \o ":localhost:" \o ToString(dst_port),
          "-N", host>> \o extra_args
  IN IF has_config
     THEN Insert(Insert(command, 1, "-F"), 1, SshConfigPath)
     ELSE command

\* ssh.py 24-32: command = ["ssh", "-L", f"{src_port}:localhost:{dst_port}",
\* "-N", host]; if extra_args: command.extend(extra_args);
\* if os.path.exists(ssh_config_path): command.insert(1, "-F");
\* command.insert(2, ssh_config_path)
SshCommand(host, src_port, dst_port, extra_args, has_config) ==
  LET command ==
        <<"ssh", "-L", ToString(src_port) \o ":localhost:" \o ToString(dst_port),
          "-N", host>>
      extended == IF extra_args # << >> THEN command \o extra_args
                  ELSE command
  IN IF has_config
     THEN Insert(Insert(extended, 1, "-F"), 2, SshConfigPath)
     ELSE extended

\* context and namespace of a kubectl host ("" when not configured)
Context(h) == IF h = "hk" THEN "prod" ELSE ""
Namespace(h) == IF h = "hr" THEN "db" ELSE ""

\* the resource an endpoint's port is declared under
ResourceName(e) ==
  CASE e = "k1" -> "svc/web" [] e = "r1" -> "svc/api" [] e = "r2" -> "pod/redis"
    [] e = "t1" -> "svc/grafana" [] OTHER -> ""

\* kubectl.py 20-28: command = ["kubectl", "port-forward"];
\* if context: command.extend(["--context", context]);
\* if namespace: command.extend(["--namespace", namespace]);
\* command.extend([resource, f"{src_port}:{dst_port}"])
KubectlCommand(context, namespace, resource, src_port, dst_port) ==
  LET command == <<"kubectl", "port-forward">>
      with_context == IF context # "" THEN command \o <<"--context", context>>
                      ELSE command
      with_namespace == IF namespace # ""
                        THEN with_context \o <<"--namespace", namespace>>
                        ELSE with_context
  IN with_namespace
       \o <<resource, ToString(src_port) \o ":" \o ToString(dst_port)>>

\* the configuration of the tunneled_kubectl host: teleport (tsh_host is ""
\* when teleport is None), remote_kube_client, ssh_args, kubectl_args, and
\* sudo ("False", "True", or the name of a user)
Teleport(h) == [tsh_host |-> "teleport.example", tsh_ssh_jump_args |-> << >>]
RemoteKubeClient(h) == "kube-client"
TunneledSshArgs(h) == <<"-q">>
KubectlArgs(h) == << >>
Sudo(h) == "admin"

\* ssh_user_config_flags()
ConfigFlags(has_config) ==
  IF has_config THEN <<"-F", SshConfigPath>> ELSE << >>

\* tunneled_kubectl.py 44-73: kubectl_cmd
RemoteLegCommand(teleport, flags, ssh_args, remote_kube_client, kubectl_sudo, kubectl_args, context, namespace, resource, dst_port) ==
  (IF teleport.tsh_host # "" THEN <<"tsh", "ssh", teleport.tsh_host, "exec">>
   ELSE << >>)
    \o <<"ssh", "-tt">>
    \o (IF teleport.tsh_host = "" THEN flags ELSE teleport.tsh_ssh_jump_args)
    \o ssh_args
    \o <<remote_kube_client, "exec">>
    \o (IF kubectl_sudo \in {"False", ""} THEN << >>
        ELSE <<"sudo", "-i">>
               \o (IF kubectl_sudo # "True" THEN <<"-u", kubectl_sudo>>
                   ELSE << >>))
    \o <<"kubectl">>
    \o kubectl_args
    \o <<"port-forward", "--address=0.0.0.0">>
    \o (IF context # "" THEN <<"--context", context>> ELSE << >>)
    \o (IF namespace # "" THEN <<"--namespace", namespace>> ELSE << >>)
    \o <<resource, "0:" \o ToString(dst_port)>>

\* tunneled_kubectl.py 142-151: tunnel_cmd
LocalLegCommand(teleport, flags, ssh_args, src_port, remote_kube_client, dynamic_port) ==
  (IF teleport.tsh_host # "" THEN <<"tsh">> ELSE << >>)
    \o <<"ssh">>
    \o (IF teleport.tsh_host = "" THEN flags ELSE << >>)
    \o ssh_args
    \o <<"-L",
         ToString(src_port) \o ":"
           \o (IF teleport.tsh_host # "" THEN remote_kube_client
               ELSE "localhost")
           \o ":" \o ToString(dynamic_port),
         "-N",
         IF teleport.tsh_host # "" THEN teleport.tsh_host
         ELSE remote_kube_client>>

\* tunnel_name: f"{host}:{src_port}->{dst_port}" in ssh.py,
\* f"{resource}:{src_port}->{dst_port}" in kubectl.py and
\* tunneled_kubectl.py
TunnelName(e) ==
  (IF Mode(e) = "ssh" THEN Hostname(HostOf(e)) ELSE ResourceName(e))
    \o ":" \o ToString(SrcPort(e)) \o "->" \o ToString(DstPort(e))

(* ------------------------ remote leg's output ------------------------- *)
\* A line is a sequence of tokens: "F" is the text "Forwarding from
\* 0.0.0.0:", "0".."9" are digits, "x" is any other text, "bad" is a byte
\* sequence that is not valid UTF-8.
Digits == {"0", "5", "7"}
DigitVal(d) == CASE d = "0" -> 0 [] d = "5" -> 5 [] d = "7" -> 7

Outputs ==
  { << >>,
    << <<"x">> >>,
    << <<"F", "5">> >>,
    << <<"x">>, <<"x", "F", "5", "7", "x">>, <<"F", "7">> >>,
    << <<"F", "x">>, <<"F", "0">> >>,
    << <<"bad">> >> }

None == -1

\* int(port_match.group(1)) for a run of digits starting at position i
RECURSIVE DigitRun(_, _, _)
DigitRun(line, i, acc) ==
  IF i <= Len(line) /\ line[i] \in Digits
  THEN DigitRun(line, i + 1, acc * 10 + DigitVal(line[i]))
  ELSE acc

\* mutant of PortMatch: the group is (\d), one digit
PortMatchOneDigit(line) ==
  LET hits == {i \in 1..(Len(line) - 1) :
                 line[i] = "F" /\ line[i + 1] \in Digits}
  IN IF hits = {} THEN None
     ELSE LET i == CHOOSE j \in hits : \A k \in hits : j <= k
          IN DigitVal(line[i + 1])

\* re.search(r"Forwarding from 0\.0\.0\.0:(\d+)", line_str): the leftmost
\* position where the text is followed by at least one digit
PortMatch(line) ==
  LET hits == {i \in 1..(Len(line) - 1) :
                 line[i] = "F" /\ line[i + 1] \in Digits}
  IN IF hits = {} THEN None
     ELSE LET i == CHOOSE j \in hits : \A k \in hits : j <= k
          IN DigitRun(line, i + 1, 0)

\* line.decode() raises on bytes that are not UTF-8
Undecodable(line) == \E i \in 1..Len(line) : line[i] = "bad"


(* ------------------------------- state -------------------------------- *)
\* ep[e]: the task of endpoint e (its position, its local variables, the
\*        processes it started);  tg[g]: the TaskGroup g;  cancel[t]: the
\*        cancellation of task t;  interrupt: SIGINT was received;
\*        all_hosts: the hosts of the loaded configuration.
VARIABLES ep, tg, cancel, interrupt, all_hosts

vars == <<ep, tg, cancel, interrupt, all_hosts>>

Terminal == {"returned", "cancelled", "raised"}

\* the number of the attempt that starts after n attempts
NextAttempt(n) == IF n < MaxAttempts THEN n + 1 ELSE n

ProcState == {"none", "running", "exited"}

\* the local variables of a loop at the top of its first iteration
NewEndpoint ==
  [pc |-> "none", after |-> "loop",
   process |-> "none", kubectl_process |-> "none", tunnel_process |-> "none",
   dynamic_port |-> None, tunnel_port |-> None, out |-> << >>, rd |-> 0,
   pend |-> "none", termed |-> {}, orphans |-> 0, live |-> 0,
   disc |-> "none", outcome |-> "none", attempts |-> 0,
   extra_args |-> << >>, has_config |-> FALSE, command |-> << >>,
   tunnel_cmd |-> << >>, tunnel_name |-> "", log |-> {}]

\* print(f"[{tunnel_name}] ...", flush=True): a line of output; tag is the
\* kind of message, text what follows it (a command line, an output line)
LogLine(r, tag, text) == [name |-> r.tunnel_name, tag |-> tag, text |-> text]

\* mutant of Printed: nothing is printed
PrintedNothing(r, tag, text) == r

\* the loop has printed a line: log is what the current attempt has printed
Printed(r, tag, text) ==
  [r EXCEPT !.log = @ \cup {LogLine(r, tag, text)}]

\* created: the create_task calls connect_*_host has made
NewGroup ==
  [pc |-> "start", tasks |-> {}, aborting |-> FALSE, errors |-> {},
   propagate |-> FALSE, created |-> 0]

\* asyncio.run(run_tunnels()) has created one connect_host task per host
Init ==
  /\ all_hosts \in Configs
  /\ ep = [e \in Endpoints |-> NewEndpoint]
  /\ tg = [g \in Groups |->
             IF g = "main"
             THEN [NewGroup EXCEPT !.pc = "wait", !.tasks = all_hosts]
             ELSE IF g \in all_hosts THEN NewGroup
             ELSE [NewGroup EXCEPT !.pc = "none"]]
  /\ cancel = [t \in Tasks |-> "none"]
  /\ interrupt = FALSE

Done(t) ==
  IF t \in Endpoints THEN ep[t].pc \in Terminal ELSE tg[t].pc \in Terminal

Raised(t) ==
  IF t \in Endpoints THEN ep[t].pc = "raised" ELSE tg[t].pc = "raised"

\* the task may take its next ordinary step: a task with a cancellation
\* requested is resumed with CancelledError instead
Runs(t) == cancel[t] # "pending"

(* --------------------------- the processes ---------------------------- *)
\* Process.terminate(): a running process gets SIGTERM; for a process that
\* has exited it does nothing or raises ProcessLookupError (when the
\* transport is already closed).
TerminateOutcomes(st) ==
  IF st = "running" THEN {"sent"} ELSE {"sent", "lookup_error"}

\* a process of endpoint e exits (by itself or after SIGTERM)
ProcExit(e) ==
  /\ \/ /\ ep[e].process = "running"
        /\ ep' = [ep EXCEPT ![e].process = "exited"]
     \/ /\ ep[e].kubectl_process = "running"
        /\ ep' = [ep EXCEPT ![e].kubectl_process = "exited"]
     \/ /\ ep[e].tunnel_process = "running"
        /\ ep' = [ep EXCEPT ![e].tunnel_process = "exited"]
     \/ /\ ep[e].orphans > 0
        /\ ep' = [ep EXCEPT ![e].orphans = @ - 1]
  /\ UNCHANGED <<tg, cancel, interrupt, all_hosts>>

(* -------- open_ssh_tunnel / open_kubectl_tunnel (single process) ------- *)
\* The two loops have the same statements (ssh.py 34-51, kubectl.py 30-42);
\* the S actions are the steps of both.  Their "except Exception" clause
\* has no action: process.wait() raises nothing but CancelledError.

\* the command the loop function of e builds before its loop
LoopCommand(e, extra_args, has_config) ==
  IF Mode(e) = "ssh"
  THEN SshCommand(Hostname(HostOf(e)), SrcPort(e), DstPort(e), extra_args,
                  has_config)
  ELSE KubectlCommand(Context(HostOf(e)), Namespace(HostOf(e)),
                      ResourceName(e), SrcPort(e), DstPort(e))

\* os.path.exists(ssh_config_path), as the first step of open_ssh_tunnel
\* finds it; later steps, and the kubectl loop, do not look
ConfigFileSeen(e) ==
  IF ep[e].pc = "start" /\ Mode(e) = "ssh" THEN BOOLEAN
  ELSE {ep[e].has_config}

\* mutant of SLoopTop: the next iteration starts without the wait for the
\* process of the previous one
SLoopTopNoWait(e) ==
  /\ e \in Single /\ Runs(e)
  /\ ep[e].pc \in {"start", "wait"} \/ (ep[e].pc = "sleep" /\ ep[e].after = "loop")
  /\ \E c \in ConfigFileSeen(e) :
       LET command == IF ep[e].pc = "start"
                      THEN LoopCommand(e, ep[e].extra_args, c)
                      ELSE ep[e].command
           r == [ep[e] EXCEPT !.pc = "launch", !.process = "none",
                              !.termed = {}, !.outcome = "none",
                              !.live = @ + 1, !.attempts = NextAttempt(@),
                              !.has_config = c, !.command = command,
                              !.tunnel_name = TunnelName(e), !.log = {}]
       IN ep' = [ep EXCEPT ![e] = Printed(r, "command", command)]
  /\ UNCHANGED <<tg, cancel, interrupt, all_hosts>>

\* the first step of the loop function builds the command (for ssh, after
\* it has looked for the configuration file); then, in every iteration:
\* while True: print(command); await create_subprocess_exec(*command)
SLoopTop(e) ==
  /\ e \in Single /\ Runs(e)
  /\ \/ ep[e].pc = "start"
     \/ ep[e].pc = "sleep" /\ ep[e].after = "loop"
  /\ \E c \in ConfigFileSeen(e) :
       LET command == IF ep[e].pc = "start"
                      THEN LoopCommand(e, ep[e].extra_args, c)
                      ELSE ep[e].command
           r == [ep[e] EXCEPT !.pc = "launch", !.process = "none",
                              !.termed = {}, !.outcome = "none",
                              !.live = @ + 1, !.attempts = NextAttempt(@),
                              !.has_config = c, !.command = command,
                              !.tunnel_name = TunnelName(e), !.log = {}]
       IN ep' = [ep EXCEPT ![e] = Printed(r, "command", command)]
  /\ UNCHANGED <<tg, cancel, interrupt, all_hosts>>

\* create_subprocess_exec returns the started process
SLaunchOk(e) ==
  /\ e \in Single /\ Runs(e)
  /\ ep[e].pc = "launch"
  /\ ep' = [ep EXCEPT ![e].pc = "wait", ![e].process = "running"]
  /\ UNCHANGED <<tg, cancel, interrupt, all_hosts>>

\* create_subprocess_exec raises (it is called outside the try statement)
SLaunchFail(e) ==
  /\ e \in Single /\ Runs(e)
  /\ ep[e].pc = "launch"
  /\ ep' = [ep EXCEPT ![e].pc = "raised", ![e].outcome = "launch_error",
                      ![e].live = @ - 1]
  /\ UNCHANGED <<tg, cancel, interrupt, all_hosts>>

\* try: await process.wait() returns; finally: await asyncio.sleep(1)
SWaitDone(e) ==
  /\ e \in Single /\ Runs(e)
  /\ ep[e].pc = "wait" /\ ep[e].process = "exited"
  /\ ep' = [ep EXCEPT ![e].pc = "sleep", ![e].after = "loop",
                      ![e].outcome = "exit", ![e].live = @ - 1]
  /\ UNCHANGED <<tg, cancel, interrupt, all_hosts>>

\* mutant of SCancelHandler: break right after terminate(), without the
\* wait for the process
SCancelHandlerNoWait(e, o) ==
  IF o = "lookup_error"
  THEN [ep[e] EXCEPT !.pc = "sleep", !.after = "raise",
                     !.outcome = "cancel", !.live = @ - 1]
  ELSE [ep[e] EXCEPT !.pc = "sleep", !.after = "break",
                     !.termed = @ \cup {"process"},
                     !.outcome = "cancel", !.live = @ - 1]

\* except asyncio.CancelledError: process.terminate(); await process.wait()
SCancelHandler(e, o) ==
  IF o = "lookup_error"
  THEN [ep[e] EXCEPT !.pc = "sleep", !.after = "raise",
                     !.outcome = "cancel", !.live = @ - 1]
  ELSE [ep[e] EXCEPT !.pc = "cwait", !.termed = @ \cup {"process"}]

\* the task is resumed with CancelledError at the await it is suspended in
SCancelled(e) ==
  /\ e \in Single
  /\ cancel[e] = "pending" /\ ep[e].pc \notin Terminal \cup {"none"}
  /\ cancel' = [cancel EXCEPT ![e] = "delivered"]
  /\ \/ /\ ep[e].pc \in {"start", "sleep"}
        /\ ep' = [ep EXCEPT ![e].pc = "cancelled"]
     \/ /\ ep[e].pc = "launch"
        /\ ep' = [ep EXCEPT ![e].pc = "cancelled", ![e].outcome = "cancel",
                            ![e].live = @ - 1]
     \/ /\ ep[e].pc = "wait"
        /\ \E o \in TerminateOutcomes(ep[e].process) :
             ep' = [ep EXCEPT ![e] = SCancelHandler(e, o)]
  /\ UNCHANGED <<tg, interrupt, all_hosts>>

\* the handler's await process.wait() returns; break; finally: sleep(1)
SCWaitDone(e) ==
  /\ e \in Single /\ Runs(e)
  /\ ep[e].pc = "cwait" /\ ep[e].process = "exited"
  /\ ep' = [ep EXCEPT ![e].pc = "sleep", ![e].after = "break",
                      ![e].outcome = "cancel", ![e].live = @ - 1]
  /\ UNCHANGED <<tg, cancel, interrupt, all_hosts>>

\* the sleep of the finally clause is over: the break or the pending
\* exception takes effect
SleepEnd(e) ==
  /\ Runs(e)
  /\ ep[e].pc = "sleep" /\ ep[e].after \in {"break", "raise"}
  /\ ep' = [ep EXCEPT ![e].pc = IF ep[e].after = "break" THEN "returned"
                                ELSE "raised"]
  /\ UNCHANGED <<tg, cancel, interrupt, all_hosts>>

(* ------------- open_tunneled_kubectl_tunnel (two processes) ------------ *)
Bump(b) == IF b THEN 1 ELSE 0

\* the processes the loop's variables still refer to and that are running
\* when the variables are reset: nothing refers to them any more
LeftRunning(r) ==
  Bump(r.kubectl_process = "running") + Bump(r.tunnel_process = "running")

\* kubectl_cmd of the loop of e, built before the loop
KubectlCmd(e) ==
  RemoteLegCommand(Teleport(HostOf(e)), ConfigFlags(FALSE),
                   TunneledSshArgs(HostOf(e)), RemoteKubeClient(HostOf(e)),
                   Sudo(HostOf(e)), KubectlArgs(HostOf(e)),
                   Context(HostOf(e)), Namespace(HostOf(e)),
                   ResourceName(e), DstPort(e))

\* mutant of TunnelCmd: the local leg forwards to the port of the resource
\* (dst_port), not to the port read from the remote leg's output
TunnelCmdDstPort(e, dynamic_port) ==
  LocalLegCommand(Teleport(HostOf(e)), ConfigFlags(FALSE),
                  TunneledSshArgs(HostOf(e)), SrcPort(e),
                  RemoteKubeClient(HostOf(e)), DstPort(e))

\* tunnel_cmd of the loop of e for the discovered port
TunnelCmd(e, dynamic_port) ==
  LocalLegCommand(Teleport(HostOf(e)), ConfigFlags(FALSE),
                  TunneledSshArgs(HostOf(e)), SrcPort(e),
                  RemoteKubeClient(HostOf(e)), dynamic_port)

\* while True: kubectl_process = None; tunnel_process = None;
\* dynamic_port = None; try: print(kubectl_cmd);
\* await create_subprocess_exec(*kubectl_cmd, stdout=PIPE, ...)
CLoopTop(e) ==
  /\ e \in Composite /\ Runs(e)
  /\ \/ ep[e].pc = "start"
     \/ ep[e].pc = "sleep" /\ ep[e].after = "loop"
  /\ ep[e].orphans + LeftRunning(ep[e]) <= MaxOrphans
  /\ ep' = [ep EXCEPT ![e] =
              Printed(
                [NewEndpoint EXCEPT !.pc = "klaunch",
                                    !.orphans = ep[e].orphans + LeftRunning(ep[e]),
                                    !.live = ep[e].live + 1,
                                    !.attempts = NextAttempt(ep[e].attempts),
                                    !.extra_args = ep[e].extra_args,
                                    !.command = KubectlCmd(e),
                                    !.tunnel_name = TunnelName(e)],
                "command", KubectlCmd(e))]
  /\ UNCHANGED <<tg, cancel, interrupt, all_hosts>>

\* mutant of ExceptException: the sleep is not in a finally clause, the
\* handler goes straight on to the next iteration
ExceptExceptionNoSleep(r, why) ==
  [NewEndpoint EXCEPT !.pc = "klaunch", !.orphans = r.orphans,
                      !.live = r.live, !.attempts = NextAttempt(r.attempts),
                      !.extra_args = r.extra_args, !.command = r.command,
                      !.tunnel_name = r.tunnel_name]

\* except Exception as e: print(...); finally: await asyncio.sleep(1)
ExceptException(r, why) ==
  [Printed(r, "error", << >>) EXCEPT !.pc = "sleep", !.after = "loop",
                                     !.outcome = why, !.live = @ - 1]

\* the remote leg is started; o is what it is going to write to its output
CKLaunchOk(e) ==
  /\ e \in Composite /\ Runs(e)
  /\ ep[e].pc = "klaunch"
  /\ \E o \in Outputs :
       ep' = [ep EXCEPT ![e].pc = "read", ![e].kubectl_process = "running",
                        ![e].out = o]
  /\ UNCHANGED <<tg, cancel, interrupt, all_hosts>>

\* create_subprocess_exec(*kubectl_cmd) raises inside the try statement
CKLaunchFail(e) ==
  /\ e \in Composite /\ Runs(e)
  /\ ep[e].pc = "klaunch"
  /\ ep' = [ep EXCEPT ![e] = ExceptException(ep[e], "launch_error")]
  /\ UNCHANGED <<tg, cancel, interrupt, all_hosts>>

\* mutant of DiscoveryFailed: continue without terminate() and wait()
DiscoveryFailedNoWait(r, why, o) ==
  [Printed(r, IF why = "timeout" THEN "timeout" ELSE "failed", << >>)
     EXCEPT !.pc = "sleep", !.after = "loop", !.disc = why,
            !.outcome = "discovery", !.live = @ - 1]

\* print("Timeout waiting ...") or print("Failed to detect ...");
\* kubectl_process.terminate(); await kubectl_process.wait(); continue
\* (after the timeout, and after "not dynamic_port")
DiscoveryFailed(r, why, o) ==
  LET p == Printed([r EXCEPT !.disc = why],
                   IF why = "timeout" THEN "timeout" ELSE "failed", << >>)
  IN IF o = "lookup_error"
     THEN ExceptException(p, "error")
     ELSE [p EXCEPT !.pc = "dwait", !.termed = @ \cup {"kubectl"}]

\* mutant of CReadLine: the matching branch has no return, the while loop
\* of read_kubectl_output goes on to the next readline()
CReadLineNoReturn(e) ==
  /\ e \in Composite /\ Runs(e)
  /\ ep[e].pc = "read" /\ ep[e].rd < Len(ep[e].out)
  /\ LET r == [ep[e] EXCEPT !.rd = @ + 1]
         line == ep[e].out[ep[e].rd + 1]
         port == PortMatch(line)
         shown == Printed(r, "kubectl", line)
     IN IF Undecodable(line)
        THEN ep' = [ep EXCEPT ![e] = ExceptException(r, "error")]
        ELSE IF port = None
        THEN ep' = [ep EXCEPT ![e] = shown]
        ELSE ep' = [ep EXCEPT ![e] =
                      Printed([shown EXCEPT !.dynamic_port = port], "found",
                              <<ToString(port)>>)]
  /\ UNCHANGED <<tg, cancel, interrupt, all_hosts>>

\* read_kubectl_output: one readline() that returns a line
CReadLine(e) ==
  /\ e \in Composite /\ Runs(e)
  /\ ep[e].pc = "read" /\ ep[e].rd < Len(ep[e].out)
  /\ LET r == [ep[e] EXCEPT !.rd = @ + 1]
         line == ep[e].out[ep[e].rd + 1]
         port == PortMatch(line)
         shown == Printed(r, "kubectl", line)
         found == Printed([shown EXCEPT !.dynamic_port = port], "found",
                          <<ToString(port)>>)
     IN IF Undecodable(line)
        THEN ep' = [ep EXCEPT ![e] = ExceptException(r, "error")]
        ELSE IF port = None
        THEN ep' = [ep EXCEPT ![e] = shown]
        ELSE IF port = 0
        THEN \E o \in TerminateOutcomes(r.kubectl_process) :
               ep' = [ep EXCEPT ![e] = DiscoveryFailed(found, "zero", o)]
        ELSE ep' = [ep EXCEPT ![e] =
                      Printed([found EXCEPT !.tunnel_port = port,
                                            !.tunnel_cmd = TunnelCmd(e, port),
                                            !.disc = "found",
                                            !.pc = "tlaunch"],
                              "command", TunnelCmd(e, port))]
  /\ UNCHANGED <<tg, cancel, interrupt, all_hosts>>

\* readline() returns b"": the remote leg has exited and its output is read
CReadEOF(e) ==
  /\ e \in Composite /\ Runs(e)
  /\ ep[e].pc = "read" /\ ep[e].rd = Len(ep[e].out)
  /\ ep[e].kubectl_process = "exited"
  /\ \E o \in TerminateOutcomes(ep[e].kubectl_process) :
       ep' = [ep EXCEPT ![e] = DiscoveryFailed(ep[e], "eof", o)]
  /\ UNCHANGED <<tg, cancel, interrupt, all_hosts>>

\* asyncio.wait_for(..., timeout=10) raises TimeoutError
CReadTimeout(e) ==
  /\ e \in Composite /\ Runs(e)
  /\ ep[e].pc = "read"
  /\ \E o \in TerminateOutcomes(ep[e].kubectl_process) :
       ep' = [ep EXCEPT ![e] = DiscoveryFailed(ep[e], "timeout", o)]
  /\ UNCHANGED <<tg, cancel, interrupt, all_hosts>>

\* await kubectl_process.wait() returns; continue; finally: sleep(1)
CDWaitDone(e) ==
  /\ e \in Composite /\ Runs(e)
  /\ ep[e].pc = "dwait" /\ ep[e].kubectl_process = "exited"
  /\ ep' = [ep EXCEPT ![e].pc = "sleep", ![e].after = "loop",
                      ![e].outcome = "discovery", ![e].live = @ - 1]
  /\ UNCHANGED <<tg, cancel, interrupt, all_hosts>>

\* create_subprocess_exec(*tunnel_cmd) returns the local leg
CTLaunchOk(e) ==
  /\ e \in Composite /\ Runs(e)
  /\ ep[e].pc = "tlaunch"
  /\ ep' = [ep EXCEPT ![e].pc = "race", ![e].tunnel_process = "running"]
  /\ UNCHANGED <<tg, cancel, interrupt, all_hosts>>

\* create_subprocess_exec(*tunnel_cmd) raises
CTLaunchFail(e) ==
  /\ e \in Composite /\ Runs(e)
  /\ ep[e].pc = "tlaunch"
  /\ ep' = [ep EXCEPT ![e] = ExceptException(ep[e], "launch_error")]
  /\ UNCHANGED <<tg, cancel, interrupt, all_hosts>>

Leg(r, l) == IF l = "kubectl" THEN r.kubectl_process ELSE r.tunnel_process

\* for task in pending: futs[task].terminate(); await task
TerminatePending(r, l, o) ==
  IF o = "lookup_error"
  THEN ExceptException(r, "error")
  ELSE [r EXCEPT !.pc = "rwait", !.pend = l, !.termed = @ \cup {l}]

\* asyncio.wait(futs.keys(), return_when=FIRST_COMPLETED) returns: the
\* wait() task of a leg that has exited is done; the other leg is pending,
\* or is done as well
CRaceDone(e) ==
  /\ e \in Composite /\ Runs(e)
  /\ ep[e].pc = "race"
  /\ \/ /\ ep[e].kubectl_process = "exited" /\ ep[e].tunnel_process = "exited"
        /\ ep' = [ep EXCEPT ![e].pc = "sleep", ![e].after = "loop",
                            ![e].outcome = "exit", ![e].live = @ - 1]
     \/ \E first \in {"kubectl", "tunnel"} :
          LET other == IF first = "kubectl" THEN "tunnel" ELSE "kubectl"
          IN /\ Leg(ep[e], first) = "exited"
             /\ \E o \in TerminateOutcomes(Leg(ep[e], other)) :
                  ep' = [ep EXCEPT ![e] = TerminatePending(ep[e], other, o)]
  /\ UNCHANGED <<tg, cancel, interrupt, all_hosts>>

\* await task returns: the pending leg has exited; finally: sleep(1)
CRWaitDone(e) ==
  /\ e \in Composite /\ Runs(e)
  /\ ep[e].pc = "rwait" /\ Leg(ep[e], ep[e].pend) = "exited"
  /\ ep' = [ep EXCEPT ![e].pc = "sleep", ![e].after = "loop",
                      ![e].outcome = "exit", ![e].live = @ - 1]
  /\ UNCHANGED <<tg, cancel, interrupt, all_hosts>>

\* mutant of Break: the except clause ends without break, the loop goes on
BreakMissing(r) ==
  [r EXCEPT !.pc = "sleep", !.after = "loop", !.outcome = "cancel",
            !.live = @ - 1]

\* break (out of the except clause); finally: await asyncio.sleep(1)
Break(r) ==
  [r EXCEPT !.pc = "sleep", !.after = "break", !.outcome = "cancel",
            !.live = @ - 1]

\* with contextlib.suppress(ProcessLookupError): ...
\*     if tunnel_process is not None:
\*         tunnel_process.terminate(); await tunnel_process.wait()
HandlerTunnel(r) ==
  IF r.tunnel_process = "none" THEN {Break(r)}
  ELSE {IF o = "lookup_error" THEN Break(r)
        ELSE [r EXCEPT !.pc = "htwait", !.termed = @ \cup {"tunnel"}] :
        o \in TerminateOutcomes(r.tunnel_process)}

\* except asyncio.CancelledError: print(...)
\* with contextlib.suppress(ProcessLookupError):
\*     if kubectl_process is not None:
\*         kubectl_process.terminate(); await kubectl_process.wait()
\* a ProcessLookupError leaves the whole with block
HandlerKubectl(r) ==
  IF r.kubectl_process = "none" THEN HandlerTunnel(r)
  ELSE {IF o = "lookup_error" THEN Break(r)
        ELSE [r EXCEPT !.pc = "hkwait", !.termed = @ \cup {"kubectl"}] :
        o \in TerminateOutcomes(r.kubectl_process)}

\* the task is resumed with CancelledError at the await it is suspended in
CCancelled(e) ==
  /\ e \in Composite
  /\ cancel[e] = "pending" /\ ep[e].pc \notin Terminal \cup {"none"}
  /\ cancel' = [cancel EXCEPT ![e] = "delivered"]
  /\ \/ /\ ep[e].pc \in {"start", "sleep"}
        /\ ep' = [ep EXCEPT ![e].pc = "cancelled"]
     \/ /\ ep[e].pc \in {"klaunch", "read", "dwait", "tlaunch", "race", "rwait"}
        /\ \E r \in HandlerKubectl(Printed(ep[e], "cancel", << >>)) :
             ep' = [ep EXCEPT ![e] = r]
  /\ UNCHANGED <<tg, interrupt, all_hosts>>

\* the handler's await kubectl_process.wait() returns
CHKWaitDone(e) ==
  /\ e \in Composite /\ Runs(e)
  /\ ep[e].pc = "hkwait" /\ ep[e].kubectl_process = "exited"
  /\ \E r \in HandlerTunnel(ep[e]) : ep' = [ep EXCEPT ![e] = r]
  /\ UNCHANGED <<tg, cancel, interrupt, all_hosts>>

\* the handler's await tunnel_process.wait() returns; break
CHTWaitDone(e) ==
  /\ e \in Composite /\ Runs(e)
  /\ ep[e].pc = "htwait" /\ ep[e].tunnel_process = "exited"
  /\ ep' = [ep EXCEPT ![e] = Break(ep[e])]
  /\ UNCHANGED <<tg, cancel, interrupt, all_hosts>>

(* ----------------------- asyncio.TaskGroup ---------------------------- *)
\* TaskGroup._abort: cancel every task of the group that is not done
Abort(g, ts) ==
  [t \in Tasks |-> IF t \in ts /\ ~Done(t) THEN "pending" ELSE cancel[t]]

\* for resource in config.resources: for port in resource.ports: ...
\* the ports of the resources from the i-th one on, in the order of the
\* two loops
RECURSIVE PortsFrom(_, _)
PortsFrom(rs, i) ==
  IF i > Len(rs) THEN << >> ELSE rs[i] \o PortsFrom(rs, i + 1)

\* mutant of CreatedTasks: only the ports of the first resource get a task
CreatedTasksFirstResource(h) ==
  IF HostMode(h) = "ssh" THEN Mounts(h)
  ELSE IF Resources(h) = << >> THEN << >> ELSE Resources(h)[1]

\* the endpoints connect_*_host calls tg.create_task for, one entry per
\* call: for mount in ssh_config.mounts (ssh.py 56-57); for resource in
\* resources: for port in resource.ports (kubectl.py 47-49,
\* tunneled_kubectl.py 192-194)
CreatedTasks(h) ==
  IF HostMode(h) = "ssh" THEN Mounts(h) ELSE PortsFrom(Resources(h), 1)

\* ssh_config.ssh_args, passed to every loop of an ssh host as extra_args
HostSshArgs(h) == IF HostMode(h) = "ssh" THEN SshArgs ELSE {<< >>}

\* connect_host: async with asyncio.TaskGroup() as tg: one create_task per
\* mount (per port of every resource); then __aexit__ waits for the tasks
HostStart(h) ==
  /\ h \in Hosts /\ Runs(h)
  /\ tg[h].pc = "start"
  /\ LET ts == CreatedTasks(h)
         new == {ts[i] : i \in DOMAIN ts}
     IN /\ tg' = [tg EXCEPT ![h].pc = "wait", ![h].tasks = new,
                            ![h].created = Len(ts)]
        /\ \E a \in HostSshArgs(h) :
             ep' = [e \in Endpoints |->
                      IF e \in new
                      THEN [ep[e] EXCEPT !.pc = "start", !.extra_args = a]
                      ELSE ep[e]]
  /\ UNCHANGED <<cancel, interrupt, all_hosts>>

\* the parent task of the group is resumed with CancelledError:
\* before its first step it ends cancelled; in __aexit__:
\*   except CancelledError as ex:
\*       if not self._aborting: propagate_cancellation_error = ex; _abort()
GroupCancelled(g) ==
  /\ g \in Groups
  /\ cancel[g] = "pending" /\ tg[g].pc \in {"start", "wait"}
  /\ IF tg[g].pc = "start"
     THEN /\ tg' = [tg EXCEPT ![g].pc = "cancelled"]
          /\ cancel' = [cancel EXCEPT ![g] = "delivered"]
     ELSE IF tg[g].aborting
     THEN /\ cancel' = [cancel EXCEPT ![g] = "delivered"]
          /\ UNCHANGED tg
     ELSE /\ tg' = [tg EXCEPT ![g].aborting = TRUE, ![g].propagate = TRUE]
          /\ cancel' = [Abort(g, tg[g].tasks) EXCEPT ![g] = "delivered"]
  /\ UNCHANGED <<ep, interrupt, all_hosts>>

\* TaskGroup._on_task_done(task)
OnTaskDone(g, c) ==
  /\ g \in Groups /\ c \in tg[g].tasks
  /\ Done(c) /\ ~Done(g)
  /\ LET rest == tg[g].tasks \ {c}
     IN IF ~Raised(c)
        THEN /\ tg' = [tg EXCEPT ![g].tasks = rest]
             /\ UNCHANGED cancel
        ELSE /\ tg' = [tg EXCEPT ![g].tasks = rest,
                                 ![g].errors = @ \cup {c},
                                 ![g].aborting = TRUE]
             /\ cancel' = IF tg[g].aborting THEN cancel ELSE Abort(g, rest)
  /\ UNCHANGED <<ep, interrupt, all_hosts>>

\* the end of __aexit__, once self._tasks is empty
GroupFinish(g) ==
  /\ g \in Groups /\ Runs(g)
  /\ tg[g].pc = "wait" /\ tg[g].tasks = {}
  /\ tg' = [tg EXCEPT ![g].pc =
              IF tg[g].propagate /\ tg[g].errors = {} THEN "cancelled"
              ELSE IF tg[g].errors # {} THEN "raised"
              ELSE "returned"]
  /\ UNCHANGED <<ep, cancel, interrupt, all_hosts>>

\* SIGINT: asyncio.run cancels the main task
Interrupt ==
  /\ ~interrupt /\ ~Done("main")
  /\ interrupt' = TRUE
  /\ cancel' = [cancel EXCEPT !["main"] = "pending"]
  /\ UNCHANGED <<ep, tg, all_hosts>>

\* the exception a finished task has ended with: a loop ends with
\* CancelledError or with the error that left it, a connect_host task with
\* CancelledError or with the ExceptionGroup of its TaskGroup
TaskException(t) ==
  IF t \in Endpoints
  THEN CASE ep[t].pc = "cancelled" -> "CancelledError"
         [] ep[t].pc = "raised" -> "Error"
         [] OTHER -> "none"
  ELSE CASE tg[t].pc = "cancelled" -> "CancelledError"
         [] tg[t].pc = "raised" -> "ExceptionGroup"
         [] OTHER -> "none"

\* mutant of ExitCode: an ExceptionGroup is always taken for the shutdown
ExitCodeShutdownOnly(m) ==
  CASE m.pc \in {"cancelled", "raised", "returned"} -> 0
    [] OTHER -> None

\* try: asyncio.run(run_tunnels())
\* except KeyboardInterrupt: print(...)      (the main task was cancelled
\*                                             by SIGINT and has no errors)
\* except ExceptionGroup as eg:
\*     if all(isinstance(e, CancelledError) for e in eg.exceptions): print
\*     else: typer.echo(...); raise typer.Exit(code=1)
\* m is the TaskGroup of run_tunnels; the result is the exit code
ExitCode(m) ==
  CASE m.pc \in {"cancelled", "returned"} -> 0
    [] m.pc = "raised" ->
         IF \A t \in m.errors : TaskException(t) = "CancelledError"
         THEN 0 ELSE 1
    [] OTHER -> None

(* ------------------------- the specification -------------------------- *)
Next ==
  \/ \E e \in Endpoints :
       \/ ProcExit(e)
       \/ SLoopTop(e) \/ SLaunchOk(e) \/ SLaunchFail(e) \/ SWaitDone(e)
       \/ SCancelled(e) \/ SCWaitDone(e) \/ SleepEnd(e)
       \/ CLoopTop(e) \/ CKLaunchOk(e) \/ CKLaunchFail(e)
       \/ CReadLine(e) \/ CReadEOF(e) \/ CReadTimeout(e) \/ CDWaitDone(e)
       \/ CTLaunchOk(e) \/ CTLaunchFail(e) \/ CRaceDone(e) \/ CRWaitDone(e)
       \/ CCancelled(e) \/ CHKWaitDone(e) \/ CHTWaitDone(e)
  \/ \E h \in Hosts : HostStart(h)
  \/ \E g \in Groups :
       \/ GroupCancelled(g)
       \/ GroupFinish(g)
       \/ \E c \in Tasks : OnTaskDone(g, c)
  \/ Interrupt

Spec == Init /\ [][Next]_vars

TypeOK ==
  /\ \A e \in Endpoints :
       /\ ep[e].process \in ProcState
       /\ ep[e].kubectl_process \in ProcState
       /\ ep[e].tunnel_process \in ProcState
       /\ ep[e].orphans \in 0..MaxOrphans
       /\ ep[e].rd \in 0..Len(ep[e].out)
  /\ \A t \in Tasks : cancel[t] \in {"none", "pending", "delivered"}

(* ------------------------- a second interrupt ------------------------- *)
\* asyncio.run: the first SIGINT cancels the main task; at a second SIGINT
\* the handler raises KeyboardInterrupt out of the event loop, and the
\* runner's close() cancels every task that is not done and runs the loop
\* until all of them are (asyncio.runners._cancel_all_tasks).
SecondInterrupt ==
  /\ interrupt /\ cancel["main"] = "delivered" /\ ~Done("main")
  /\ cancel' = [t \in Tasks |->
                 IF t = "main" THEN "twice"
                 ELSE IF t \in Endpoints /\ ep[t].pc \notin Terminal \cup {"none"}
                 THEN "pending"
                 ELSE IF t \in Hosts /\ tg[t].pc \in {"start", "wait"}
                 THEN "pending"
                 ELSE cancel[t]]
  /\ UNCHANGED <<ep, tg, interrupt, all_hosts>>

\* CancelledError is raised by an await of the CancelledError handler: it
\* leaves the except clause; finally: await asyncio.sleep(1); then it is
\* raised out of the loop
CancelledInHandler(r) ==
  [r EXCEPT !.pc = "sleep", !.after = "cancel", !.outcome = "cancel",
            !.live = @ - 1]

\* ssh.py 45-47 / kubectl.py 36-38: the second CancelledError arrives in
\* the handler's await process.wait()
SCancelledAgain(e) ==
  /\ e \in Single
  /\ cancel[e] = "pending" /\ ep[e].pc = "cwait"
  /\ cancel' = [cancel EXCEPT ![e] = "delivered"]
  /\ ep' = [ep EXCEPT ![e] = CancelledInHandler(ep[e])]
  /\ UNCHANGED <<tg, interrupt, all_hosts>>

\* tunneled_kubectl.py 176-182: the second CancelledError arrives in
\* await kubectl_process.wait() or await tunnel_process.wait(); it is not
\* a ProcessLookupError, the with block does not suppress it
CCancelledAgain(e) ==
  /\ e \in Composite
  /\ cancel[e] = "pending" /\ ep[e].pc \in {"hkwait", "htwait"}
  /\ cancel' = [cancel EXCEPT ![e] = "delivered"]
  /\ ep' = [ep EXCEPT ![e] = CancelledInHandler(ep[e])]
  /\ UNCHANGED <<tg, interrupt, all_hosts>>

\* the sleep of the finally clause is over: the CancelledError goes on
SleepEndCancelled(e) ==
  /\ Runs(e)
  /\ ep[e].pc = "sleep" /\ ep[e].after = "cancel"
  /\ ep' = [ep EXCEPT ![e].pc = "cancelled"]
  /\ UNCHANGED <<tg, cancel, interrupt, all_hosts>>

NextTwice ==
  \/ Next
  \/ SecondInterrupt
  \/ \E e \in Endpoints :
       SCancelledAgain(e) \/ CCancelledAgain(e) \/ SleepEndCancelled(e)

\* the configurations the second interrupt is run on
TwiceConfigs == {{"hs"}, {"ht"}}

TwiceInit ==
  /\ all_hosts \in TwiceConfigs
  /\ ep = [e \in Endpoints |-> NewEndpoint]
  /\ tg = [g \in Groups |->
             IF g = "main"
             THEN [NewGroup EXCEPT !.pc = "wait", !.tasks = all_hosts]
             ELSE IF g \in all_hosts THEN NewGroup
             ELSE [NewGroup EXCEPT !.pc = "none"]]
  /\ cancel = [t \in Tasks |-> "none"]
  /\ interrupt = FALSE

SpecTwice == TwiceInit /\ [][NextTwice]_vars

(* ------------------- main.py: the gather entry point ------------------- *)
\* main.py has its own _main: the loops of the ssh and kubectl hosts are
\* tasks of one event loop, waited for with asyncio.gather; there are no
\* task groups.  Its loops have the statements of the S actions.
GatherConfigs == {{"hs"}, {"hs", "hk"}}

\* for host_config in all_hosts: ... task = loop.create_task(...);
\* tasks.append(task);  then try: loop.run_until_complete(gather(*tasks))
GatherInit ==
  /\ all_hosts \in GatherConfigs
  /\ ep = [e \in Endpoints |->
             IF HostOf(e) \in all_hosts THEN [NewEndpoint EXCEPT !.pc = "start"]
             ELSE NewEndpoint]
  /\ tg = [g \in Groups |->
             IF g = "main"
             THEN [NewGroup EXCEPT !.pc = "gather",
                     !.tasks = UNION {HostEndpoints(h) : h \in all_hosts}]
             ELSE [NewGroup EXCEPT !.pc = "none"]]
  /\ cancel = [t \in Tasks |-> "none"]
  /\ interrupt = FALSE

\* the process of a loop exits (by itself or after SIGTERM)
GatherProcExit(e) ==
  /\ e \in Single /\ ep[e].process = "running"
  /\ ep' = [ep EXCEPT ![e].process = "exited"]
  /\ UNCHANGED <<tg, cancel, interrupt, all_hosts>>

\* except KeyboardInterrupt: print("Interrupted");
\*     for task in tasks: task.cancel()
\* finally: loop.run_until_complete(asyncio.gather(*tasks))
GatherInterrupt ==
  /\ ~interrupt /\ tg["main"].pc = "gather"
  /\ interrupt' = TRUE
  /\ cancel' = Abort("main", tg["main"].tasks)
  /\ tg' = [tg EXCEPT !["main"].pc = "finally"]
  /\ UNCHANGED <<ep, all_hosts>>

\* gather (return_exceptions=False): the first task that ends with an
\* exception or cancelled sets the exception of the gather future, and
\* run_until_complete raises it; in the try block it is raised once more by
\* the gather of the finally clause.  loop.close() is not reached.
GatherRaise(c) ==
  /\ tg["main"].pc \in {"gather", "finally"}
  /\ c \in tg["main"].tasks /\ ep[c].pc \in {"raised", "cancelled"}
  /\ tg' = [tg EXCEPT !["main"].pc = "raised", !["main"].errors = {c}]
  /\ UNCHANGED <<ep, cancel, interrupt, all_hosts>>

\* every task has returned: run_until_complete returns; loop.close()
GatherReturn ==
  /\ tg["main"].pc \in {"gather", "finally"}
  /\ \A c \in tg["main"].tasks : ep[c].pc = "returned"
  /\ tg' = [tg EXCEPT !["main"].pc = "returned"]
  /\ UNCHANGED <<ep, cancel, interrupt, all_hosts>>

GatherNext ==
  \/ \E e \in Single :
       \/ GatherProcExit(e)
       \/ SLoopTop(e) \/ SLaunchOk(e) \/ SLaunchFail(e) \/ SWaitDone(e)
       \/ SCancelled(e) \/ SCWaitDone(e) \/ SleepEnd(e)
       \/ GatherRaise(e)
  \/ GatherInterrupt
  \/ GatherReturn

SpecGather == GatherInit /\ [][GatherNext]_vars

(* ------------------------------ claims -------------------------------- *)
\* the attempt of e has ended: the loop is in the sleep of its finally
\* clause, or has left the function
AttemptEnded(e) == ep[e].pc \in {"sleep"} \cup Terminal

\* C1: in the tunneled-kubectl loop, when an attempt has ended (on any
\* exit path) no process started by that attempt is still running, and no
\* process of an earlier attempt is running when the next one begins.
C1_AttemptLeavesNoProcess ==
  \A e \in Composite :
    /\ AttemptEnded(e) =>
         /\ ep[e].kubectl_process # "running"
         /\ ep[e].tunnel_process # "running"
    /\ ep[e].orphans = 0

\* C2: when the tunneled-kubectl loop returns after a cancellation, every
\* leg it started has been terminated and has exited.
C2_CancelReapsBothLegs ==
  \A e \in Composite :
    (cancel[e] = "delivered" /\ ep[e].outcome = "cancel"
       /\ ep[e].pc \in {"sleep", "returned"}) =>
      /\ ep[e].kubectl_process # "running"
      /\ ep[e].tunnel_process # "running"

\* C3: for every strategy, a failure to launch the executable does not end
\* the loop: it is never raised out of the loop.
C3_LaunchFailureStaysInLoop ==
  \A e \in Endpoints : ep[e].outcome = "launch_error" => ep[e].pc # "raised"

\* C4: without the shared cancellation signal (the interrupt), no endpoint
\* task is ever cancelled because of another endpoint, and no failure
\* reaches a host's task group or the orchestrator's.
C4_LoopsIndependent ==
  ~interrupt =>
    /\ \A e \in Endpoints : cancel[e] = "none"
    /\ \A g \in Groups : tg[g].errors = {} /\ ~tg[g].aborting

\* C5: every endpoint has at most one live attempt at every moment.
C5_AtMostOneLiveAttempt ==
  \A e \in Endpoints : ep[e].live \in {0, 1}

\* C5 witness: an endpoint is in its second attempt, the first one ended
C5_Witness ==
  \E e \in Endpoints :
    ep[e].attempts = 2 /\ ep[e].live = 1 /\ ep[e].pc \in {"wait", "read"}

\* C6: after a discovery timeout, or the end of the remote leg's output
\* without a port, the local leg is never started in that attempt; when the
\* attempt has ended the remote leg has exited; and unless the loop was
\* cancelled the attempt ends in the backoff sleep that leads to a retry.
C6_DiscoveryFailureEndsAttempt ==
  \A e \in Composite :
    ep[e].disc \in {"timeout", "eof"} =>
      /\ ep[e].tunnel_process = "none" /\ ep[e].tunnel_port = None
      /\ ep[e].pc \notin {"tlaunch", "race", "rwait", "htwait"}
      /\ AttemptEnded(e) => ep[e].kubectl_process = "exited"
      /\ (AttemptEnded(e) /\ cancel[e] # "delivered") =>
           (ep[e].pc = "sleep" /\ ep[e].after = "loop")

\* C6 witness: an attempt ended by the discovery timeout, remote leg
\* terminated and exited, loop in the backoff sleep before the retry
C6_Witness ==
  \E e \in Composite :
    /\ ep[e].disc = "timeout" /\ ep[e].outcome = "discovery"
    /\ "kubectl" \in ep[e].termed /\ ep[e].kubectl_process = "exited"
    /\ ep[e].pc = "sleep" /\ ep[e].after = "loop"

\* C7: once the race of the two legs was decided by the exit of one leg and
\* the other leg was sent its termination request, when the attempt has
\* ended both legs have exited, whichever of them exited first.
C7_RaceReapsOtherLeg ==
  \A e \in Composite :
    (ep[e].pend # "none" /\ AttemptEnded(e)) =>
      /\ ep[e].kubectl_process = "exited"
      /\ ep[e].tunnel_process = "exited"

\* C8: a loop that has started a second attempt (a supervised process has
\* exited and was retried) never stops unless it was cancelled.
C8_OnlyCancellationStopsLoop ==
  \A e \in Endpoints :
    (ep[e].attempts >= 2 /\ ep[e].pc \in Terminal) => cancel[e] = "delivered"

\* the step launches no process of e and starts no attempt of e
NoLaunch(e) ==
  /\ ep'[e].attempts = ep[e].attempts /\ ep'[e].live <= ep[e].live
  /\ ep'[e].pc \notin {"launch", "klaunch", "tlaunch"}
  /\ ep'[e].process = "running" => ep[e].process = "running"
  /\ ep'[e].kubectl_process = "running" => ep[e].kubectl_process = "running"
  /\ ep'[e].tunnel_process = "running" => ep[e].tunnel_process = "running"

\* C9: once a loop was resumed with the cancellation, no step of it
\* launches a process or starts an attempt.
C9_NoLaunchAfterCancel ==
  [][\A e \in Endpoints : cancel[e] = "delivered" => NoLaunch(e)]_vars

\* C9 witness: a loop cancelled while it waited for its processes has
\* returned
C9_Witness ==
  \E e \in Composite :
    /\ cancel[e] = "delivered" /\ ep[e].pc = "returned"
    /\ ep[e].tunnel_process = "exited" /\ "tunnel" \in ep[e].termed

\* C10: when a single-process loop returns after a cancellation, its
\* process was sent a termination request and has exited; however the loop
\* ends after a cancellation, its process is not running.
C10_SingleCancelReaps ==
  \A e \in Single :
    /\ ep[e].pc = "returned" =>
         ("process" \in ep[e].termed /\ ep[e].process = "exited")
    /\ (cancel[e] = "delivered" /\ (ep[e].pc \in Terminal \/ ep[e].pc = "sleep"))
         => ep[e].process # "running"

\* C10 witness: a kubectl loop that returned after its process was
\* terminated and waited for
C10_Witness ==
  \E e \in Single :
    /\ Mode(e) = "kubectl" /\ cancel[e] = "delivered"
    /\ ep[e].pc = "returned" /\ "process" \in ep[e].termed
    /\ ep[e].process = "exited"

\* C11: an attempt of a loop is started only by the first step of the loop
\* or from the backoff sleep that follows the previous attempt, whatever
\* ended that attempt (exit, discovery timeout or failure, error); and an
\* attempt that ends without ending the loop ends in that sleep.
C11_BackoffBeforeNextAttempt ==
  [][\A e \in Endpoints :
       /\ (ep'[e].pc \in {"launch", "klaunch"} /\ ep[e].pc # ep'[e].pc) =>
            \/ ep[e].pc = "start"
            \/ ep[e].pc = "sleep" /\ ep[e].after = "loop"
       /\ ep'[e].attempts > ep[e].attempts =>
            (ep[e].pc \in {"start", "sleep"}
               /\ ep[e].process # "running"
               /\ ep'[e].pc \in {"launch", "klaunch"})
       /\ ep'[e].live < ep[e].live =>
            ep'[e].pc \in {"sleep"} \cup Terminal]_vars

\* C11 witness: a second attempt was started after the sleep that followed
\* a failed discovery or an error of the first one
C11_Witness ==
  \E e \in Composite :
    /\ ep[e].attempts = 2 /\ ep[e].pc = "klaunch" /\ ep[e].live = 1

\* C12: after the interrupt, when the orchestrator's overall wait is over
\* and no loop has failed, every endpoint loop that was started has ended:
\* the wait never completes while a loop is still running.
C12_WaitOutlivesNoLoop ==
  (interrupt /\ Done("main") /\ \A e \in Endpoints : ep[e].pc # "raised") =>
    \A e \in Endpoints : ep[e].pc \in Terminal \cup {"none"}

\* C13: once a loop has ended after the cancellation, every process it
\* started that is still alive has at least been sent its termination
\* request, so that none stays alive for ever.
C13_CancelTerminatesEveryProcess ==
  \A e \in Endpoints :
    (cancel[e] = "delivered" /\ ep[e].pc \in Terminal) =>
      /\ ep[e].process = "running" => "process" \in ep[e].termed
      /\ ep[e].kubectl_process = "running" => "kubectl" \in ep[e].termed
      /\ ep[e].tunnel_process = "running" => "tunnel" \in ep[e].termed
      /\ ep[e].orphans = 0

\* C14: however often the cancellation is delivered to a single-process
\* loop, when the loop has ended the process it has sent the termination
\* request to has exited, as after one delivery.
C14_SecondCancelSameEnd ==
  \A e \in Single :
    (interrupt /\ ep[e].pc \in Terminal /\ "process" \in ep[e].termed) =>
      ep[e].process = "exited"

\* C15: the cancellation cleanup of a single-process loop never ends the
\* loop with an error, also when the process it asks to terminate has
\* already exited.
C15_TerminateExitedIsSafe ==
  \A e \in Single : ep[e].outcome = "cancel" => ep[e].pc # "raised"

\* C16: when the orchestrator has ended, it reports success (exit code 0)
\* exactly when no endpoint loop ended with a failure; then every loop that
\* was started ended because of the cancellation; otherwise the exit code
\* is 1 and every failed loop's host is among the errors the orchestrator
\* has collected.
C16_SuccessOnlyAfterCancellation ==
  Done("main") =>
    LET code == ExitCode(tg["main"])
    IN /\ code \in {0, 1}
       /\ code = 0 <=> \A e \in Endpoints : ep[e].pc # "raised"
       /\ code = 0 =>
            \A e \in Endpoints :
              ep[e].pc # "none" =>
                (ep[e].pc \in {"returned", "cancelled"}
                   /\ cancel[e] = "delivered")
       /\ code = 1 =>
            \A e \in Endpoints :
              ep[e].pc = "raised" => HostOf(e) \in tg["main"].errors

\* C16 witness: the orchestrator has ended with exit code 1: one loop
\* failed, another one of the same run returned after the cancellation
C16_Witness ==
  /\ Done("main") /\ ExitCode(tg["main"]) = 1
  /\ \E e \in Endpoints : ep[e].pc = "raised"
  /\ \E e \in Endpoints : ep[e].pc = "returned" /\ cancel[e] = "delivered"

\* the number of endpoints the configuration declares under host h
Declared(h) ==
  Len(Mounts(h))
    + Cardinality(UNION {{<<i, j>> : j \in DOMAIN Resources(h)[i]} :
                           i \in DOMAIN Resources(h)})

\* C17: a host that has started its loops has created exactly one task
\* for every endpoint declared under it (every mount, every port of every
\* resource) and every such loop has been started; no loop exists for an
\* endpoint of a host that is not configured; and once the cancellation
\* has reached a host's task group, every loop of the host that has not
\* ended has been cancelled.
C17_OneLoopPerEndpoint ==
  /\ \A h \in Hosts :
       /\ (tg[h].pc = "wait" \/ tg[h].created > 0) =>
            /\ tg[h].created = Declared(h)
            /\ tg[h].created = Cardinality(HostEndpoints(h))
            /\ \A e \in HostEndpoints(h) : ep[e].pc # "none"
       /\ tg[h].tasks \subseteq HostEndpoints(h)
       /\ h \notin all_hosts => \A e \in HostEndpoints(h) : ep[e].pc = "none"
       /\ (tg[h].pc = "wait" /\ cancel[h] = "delivered") =>
            \A e \in HostEndpoints(h) : Done(e) \/ cancel[e] # "none"
  /\ cancel["main"] = "delivered" =>
       \A h \in all_hosts : Done(h) \/ cancel[h] # "none"

\* C17 witness: the kubectl host with two resources has started its two
\* loops, both of them run their process
C17_Witness ==
  /\ tg["hr"].pc = "wait" /\ tg["hr"].created = 2
  /\ \A e \in {"r1", "r2"} : ep[e].pc = "wait"

\* C18: the command of a direct-SSH loop is ssh, then -F and the path of
\* the configuration file when the file exists, then -L
\* <src>:localhost:<dst> -N <host>, then the extra arguments; it is this
\* command in every attempt of the loop.
C18_SshCommandLine ==
  \A e \in Endpoints :
    (Mode(e) = "ssh" /\ ep[e].attempts >= 1) =>
      ep[e].command =
        <<"ssh">>
          \o (IF ep[e].has_config THEN <<"-F", SshConfigPath>> ELSE << >>)
          \o <<"-L",
               ToString(SrcPort(e)) \o ":localhost:" \o ToString(DstPort(e)),
               "-N", Hostname(HostOf(e))>>
          \o ep[e].extra_args

\* C18 witness: an ssh loop whose host has extra arguments and that has
\* found the configuration file runs the process of its second attempt
C18_Witness ==
  \E e \in Endpoints :
    /\ Mode(e) = "ssh" /\ ep[e].attempts = 2 /\ ep[e].process = "running"
    /\ ep[e].has_config /\ Len(ep[e].extra_args) = 2

\* the line contains "Forwarding from 0.0.0.0:" followed by a digit
HasPattern(line) ==
  \E i \in 1..(Len(line) - 1) : line[i] = "F" /\ line[i + 1] \in Digits

\* the number written with the digits line[i..j]
RECURSIVE DecimalValue(_, _, _)
DecimalValue(line, i, j) ==
  IF i > j THEN 0
  ELSE DigitVal(line[j]) + 10 * DecimalValue(line, i, j - 1)

\* the number that follows the first occurrence of the pattern in the line
PortOf(line) ==
  LET i == CHOOSE a \in 1..(Len(line) - 1) :
             /\ line[a] = "F" /\ line[a + 1] \in Digits
             /\ \A b \in 1..(a - 1) :
                  ~(line[b] = "F" /\ line[b + 1] \in Digits)
      j == CHOOSE c \in (i + 1)..Len(line) :
             /\ \A k \in (i + 1)..c : line[k] \in Digits
             /\ c = Len(line) \/ line[c + 1] \notin Digits
  IN DecimalValue(line, i + 1, j)

\* C19: while the output of the remote leg is read, no line read so far
\* contains the pattern (lines without it yield no match and are skipped);
\* a discovered port is the number that follows the pattern in the last
\* line read, and that line is the first line of the output with the
\* pattern.
C19_PortOfFirstMatchingLine ==
  \A e \in Composite :
    /\ ep[e].pc = "read" =>
         /\ ep[e].dynamic_port = None
         /\ \A k \in 1..ep[e].rd : ~HasPattern(ep[e].out[k])
    /\ ep[e].dynamic_port # None =>
         /\ ep[e].rd >= 1 /\ HasPattern(ep[e].out[ep[e].rd])
         /\ \A k \in 1..(ep[e].rd - 1) : ~HasPattern(ep[e].out[k])
         /\ ep[e].dynamic_port = PortOf(ep[e].out[ep[e].rd])

\* C19 witness: the first line has no pattern, the second one has it in
\* the middle with two digits, the third one has another port: the port
\* 57 of the second line is the discovered one
C19_Witness ==
  \E e \in Composite :
    /\ Len(ep[e].out) = 3 /\ ep[e].rd = 2
    /\ ep[e].dynamic_port = 57 /\ ep[e].disc = "found"

\* the current attempt of the loop r has printed a line of this kind
HasLine(r, tag) == \E l \in r.log : l.tag = tag /\ l.name = r.tunnel_name

\* C20: whenever a loop is launching or has launched a process in its
\* current attempt, the attempt has printed a line with the endpoint's
\* name and that command line; an attempt that ended in the except
\* Exception clause, by the discovery timeout or by a failed discovery has
\* printed the line of that event; and a loop in the backoff sleep before
\* a retry has printed something in the attempt that just ended.
C20_LaunchesAndErrorsAreLogged ==
  \A e \in Endpoints :
    LET r == ep[e]
    IN /\ r.pc \notin {"none", "start", "cancelled"} \/ r.attempts >= 1 =>
            r.tunnel_name = TunnelName(e)
       /\ (r.pc \in {"launch", "klaunch"} \/ r.process # "none"
              \/ r.kubectl_process # "none") =>
            /\ r.command # << >>
            /\ LogLine(r, "command", r.command) \in r.log
       /\ (r.pc = "tlaunch" \/ r.tunnel_process # "none") =>
            /\ r.tunnel_cmd # << >>
            /\ LogLine(r, "command", r.tunnel_cmd) \in r.log
       /\ (e \in Composite /\ r.outcome \in {"error", "launch_error"}) =>
            HasLine(r, "error")
       /\ r.disc = "timeout" => HasLine(r, "timeout")
       /\ r.disc \in {"eof", "zero"} => HasLine(r, "failed")
       /\ (r.pc = "sleep" /\ r.after = "loop") => r.log # {}

\* C20 witness: the local leg could not be launched: the attempt has
\* printed both command lines, the port and the error, and is in the
\* backoff sleep
C20_Witness ==
  \E e \in Composite :
    /\ ep[e].pc = "sleep" /\ ep[e].after = "loop"
    /\ ep[e].outcome = "launch_error" /\ ep[e].tunnel_cmd # << >>
    /\ HasLine(ep[e], "error") /\ HasLine(ep[e], "found")
    /\ LogLine(ep[e], "command", ep[e].tunnel_cmd) \in ep[e].log

\* the remote legs started by the loop of e that are running: the one
\* kubectl_process refers to, and those of earlier attempts that were left
\* running when the variables were reset (only a remote leg is ever left
\* running at the top of the loop, see OnlyRemoteLegLeftRunning)
RemoteLegsAlive(e) ==
  ep[e].orphans + Bump(ep[e].kubectl_process = "running")

\* the local legs started by the loop of e that are running
LocalLegsAlive(e) == Bump(ep[e].tunnel_process = "running")

\* at the top of an iteration the local leg of the attempt that has just
\* ended is never running: what LeftRunning counts there is a remote leg
OnlyRemoteLegLeftRunning ==
  \A e \in Composite :
    (ep[e].pc = "sleep" /\ ep[e].after = "loop") =>
      ep[e].tunnel_process # "running"

\* C21: for every tunneled-kubectl endpoint, at every moment and across
\* all attempts, at most one remote leg and at most one local leg started
\* by its loop are running; while the remote leg of the current attempt is
\* being launched or is running, no remote leg of an earlier attempt runs.
C21_OneLegOfEachKindAlive ==
  \A e \in Composite :
    /\ RemoteLegsAlive(e) <= 1
    /\ LocalLegsAlive(e) <= 1
    /\ ep[e].pc = "klaunch" => ep[e].orphans = 0

\* the argument of -L in a command line
ForwardArg(cmd) ==
  LET i == CHOOSE k \in 1..(Len(cmd) - 1) : cmd[k] = "-L" IN cmd[i + 1]

\* "source-port:client:port", client being the intermediate client host
\* with Teleport and localhost (as seen from it) without
ForwardTo(e, port) ==
  ToString(SrcPort(e)) \o ":"
    \o (IF Teleport(HostOf(e)).tsh_host # "" THEN RemoteKubeClient(HostOf(e))
        ELSE "localhost")
    \o ":" \o ToString(port)

\* the local leg of the current attempt is being launched or was launched
LocalLegLaunched(e) ==
  ep[e].pc = "tlaunch" \/ ep[e].tunnel_process # "none"

\* C22: in every attempt of the tunneled-kubectl loop the order is launch
\* remote leg, discover port, launch local leg: while the remote leg is
\* being launched the attempt has neither a port nor a local leg; a port is
\* known only once the remote leg was launched; the local leg is launched
\* only once a port was found in the output the remote leg of this attempt
\* has written, and its -L argument forwards the source port to exactly the
\* port of the line read last in this attempt.
C22_LocalLegAfterDiscoveryToThatPort ==
  \A e \in Composite :
    LET r == ep[e]
    IN /\ r.pc = "klaunch" =>
            /\ r.kubectl_process = "none" /\ r.dynamic_port = None
            /\ r.tunnel_process = "none" /\ r.tunnel_cmd = << >>
       /\ r.dynamic_port # None => r.kubectl_process # "none"
       /\ r.disc # "found" =>
            /\ r.tunnel_process = "none" /\ r.tunnel_cmd = << >>
            /\ r.pc # "tlaunch"
       /\ LocalLegLaunched(e) =>
            /\ r.kubectl_process # "none" /\ r.disc = "found"
            /\ r.rd >= 1 /\ HasPattern(r.out[r.rd])
            /\ r.dynamic_port = PortOf(r.out[r.rd]) /\ r.dynamic_port > 0
            /\ r.tunnel_port = r.dynamic_port
            /\ ForwardArg(r.tunnel_cmd) = ForwardTo(e, PortOf(r.out[r.rd]))

\* C22 witness: in the second attempt, started while the remote leg of the
\* first one was left running after an error, the local leg runs and
\* forwards to the port 5 that the remote leg of the second attempt wrote
C22_Witness ==
  \E e \in Composite :
    /\ ep[e].attempts = 2 /\ ep[e].orphans = 1
    /\ ep[e].tunnel_process = "running" /\ ep[e].kubectl_process = "running"
    /\ ep[e].out = << <<"F", "5">> >> /\ ep[e].dynamic_port = 5
    /\ ForwardArg(ep[e].tunnel_cmd) = "3000:kube-client:5"

\* the step of e stays in the current attempt: it is not the top of the
\* next iteration, which resets the variables
SameAttempt(e) == ep'[e].pc # "klaunch"

\* C23: in an attempt of the tunneled-kubectl loop, once the dynamic port
\* has been discovered no step of the rest of the attempt consumes a line
\* of the remote leg's output or changes the port: the number of lines read
\* stays the index of the matching line, whatever the output holds after it.
C23_ReadingStopsAtFirstMatch ==
  [][\A e \in Composite :
       (ep[e].dynamic_port # None /\ SameAttempt(e)) =>
         /\ ep'[e].rd = ep[e].rd
         /\ ep'[e].dynamic_port = ep[e].dynamic_port
         /\ ep'[e].out = ep[e].out
         /\ ep'[e].pc # "read"]_vars

\* C23 witness: the attempt has ended after the race of the two legs with
\* port 57 of the second line; the third line, which holds another port,
\* was never read
C23_Witness ==
  \E e \in Composite :
    /\ ep[e].pc = "sleep" /\ ep[e].outcome = "exit"
    /\ ep[e].tunnel_process = "exited"
    /\ Len(ep[e].out) = 3 /\ ep[e].rd = 2 /\ ep[e].dynamic_port = 57
    /\ HasPattern(ep[e].out[3])

=============================================================================
